---- MODULE Spec2Model ----
(***************************************************************************)
(* Date-interval segmentation of the invoice generator.                   *)
(*                                                                         *)
(* Two copies of the segmentation logic exist in the repository:          *)
(*   - calculateSegments      in components/interval-date-range-picker.tsx *)
(*   - calculateDateSegments  in components/forms/invoice-form.tsx         *)
(* Both are driven by the DateRangePicker of components/date-range-picker  *)
(* and built on date-fns and on the JavaScript Date object, which are      *)
(* modelled here by what they compute.                                     *)
(*                                                                         *)
(* A Date is a record [day, tod]: day is the local calendar day counted    *)
(* from 1970-01-01, tod the time of day in ticks 0..MaxTod, where tick 0   *)
(* is 00:00:00.000 and tick MaxTod is 23:59:59.999.  The local time zone   *)
(* has a fixed offset (no daylight saving).                                *)
(***************************************************************************)
EXTENDS Integers, Sequences, FiniteSets, TLC

----------------------------------------------------------------------------
(* Bounds of the model. *)

\* Latest time-of-day tick of a Date (tick MaxTod is 23:59:59.999).
MaxTod == 1
\* Start dates offered to the date picker: BaseDay .. BaseDay + MaxStartOffset.
MaxStartOffset == 6
\* Longest selected range, in days from start to end.
MaxSpan == 62
\* Furthest an end date is selected before its start date, in days.
MaxBack == 1

----------------------------------------------------------------------------
(* JavaScript values. *)

\* Number.NaN: every comparison with it is false, arithmetic on it gives NaN.
NaN == 0 - 1000000000

IsNaN(x) == x = NaN

NumAdd(x, y) == IF IsNaN(x) \/ IsNaN(y) THEN NaN ELSE x + y

NumLt(x, y) == ~IsNaN(x) /\ ~IsNaN(y) /\ x < y

NumLe(x, y) == ~IsNaN(x) /\ ~IsNaN(y) /\ x <= y

\* null where a Date is expected (Date | null).
NullDate == [day |-> 0, tod |-> 0 - 2]

\* new Date(NaN): an Invalid Date, whose time value is NaN.
InvalidDate == [day |-> 0, tod |-> 0 - 1]

IsValidDate(d) == d.tod >= 0

\* A JavaScript truthiness test of a Date | null: every Date object is truthy.
Truthy(d) == d # NullDate

\* a < b on Dates compares the time values; false when either is NaN.
DateLt(a, b) ==
    /\ IsValidDate(a)
    /\ IsValidDate(b)
    /\ (a.day < b.day \/ (a.day = b.day /\ a.tod < b.tod))

DateLe(a, b) == IsValidDate(a) /\ IsValidDate(b) /\ ~DateLt(b, a)

\* null where an array of segments is expected (Array | null).
NullSegments == [isNull |-> TRUE, items |-> <<>>]

SomeSegments(list) == [isNull |-> FALSE, items |-> list]

----------------------------------------------------------------------------
(* The proleptic Gregorian calendar behind Date's getters and setters. *)

\* Day number of the civil date y-m-d, m in 1..12; d may lie outside the month,
\* which is how Date normalises setDate(0), setDate(32) and the like.
DaysFromCivil(y, m, d) ==
    LET yy  == IF m <= 2 THEN y - 1 ELSE y
        era == yy \div 400
        yoe == yy - era * 400
        mp  == IF m > 2 THEN m - 3 ELSE m + 9
        doy == (153 * mp + 2) \div 5 + d - 1
        doe == yoe * 365 + yoe \div 4 - yoe \div 100 + doy
    IN  era * 146097 + doe - 719468

\* The civil date [y, m, d] of a day number, m in 1..12, in steps: from the day
\* of the year that starts in March (doy) and the month counted from March (mp),
\* from the year of the 400-year era (yoe), from the day of the era (doe).
CivilAtMonth(y, doy, mp) ==
    [y |-> IF mp < 10 THEN y ELSE y + 1,
     m |-> IF mp < 10 THEN mp + 3 ELSE mp - 9,
     d |-> doy - (153 * mp + 2) \div 5 + 1]

CivilAtDayOfYear(y, doy) == CivilAtMonth(y, doy, (5 * doy + 2) \div 153)

CivilInYear(era, yoe, doe) ==
    CivilAtDayOfYear(yoe + era * 400, doe - (365 * yoe + yoe \div 4 - yoe \div 100))

CivilInEra(era, doe) ==
    CivilInYear(era, (doe - doe \div 1460 + doe \div 36524 - doe \div 146096) \div 365, doe)

CivilOfDay(z) == CivilInEra((z + 719468) \div 146097, (z + 719468) % 146097)

\* The days whose civil dates are tabulated: 2023-05-23 .. 2024-10-04.
TabulatedDays == DaysFromCivil(2023, 5, 23) .. DaysFromCivil(2024, 10, 4)

CivilTable == [z \in TabulatedDays |-> CivilOfDay(z)]

CivilFromDays(z) == IF z \in TabulatedDays THEN CivilTable[z] ELSE CivilOfDay(z)

\* Date.prototype.getFullYear, getMonth (0 = January), getDate, getDay (0 = Sunday).
getFullYear(date) == CivilFromDays(date.day).y

getMonth(date) == CivilFromDays(date.day).m - 1

getDate(date) == CivilFromDays(date.day).d

getDay(date) == (date.day + 4) % 7

\* Date.prototype.setDate(n): day n of the date's month, overflowing into the
\* neighbouring months; the time of day is kept.
setDate(date, n) ==
    LET c == CivilFromDays(date.day)
    IN  [day |-> DaysFromCivil(c.y, c.m, n), tod |-> date.tod]

\* Date.prototype.setMonth(k), k 0-based and possibly outside 0..11: the day of
\* the month is kept and overflows (31 February becomes 2 or 3 March).
setMonth(date, k) ==
    LET c  == CivilFromDays(date.day)
        ym == c.y * 12 + k
    IN  [day |-> DaysFromCivil(ym \div 12, (ym % 12) + 1, c.d), tod |-> date.tod]

\* Date.prototype.setHours(0, 0, 0, 0) and setHours(23, 59, 59, 999).
AtTick(date, t) == [day |-> date.day, tod |-> t]

----------------------------------------------------------------------------
(* date-fns, as far as the two engines use it. *)

\* FALSE models date-fns 3 and later, where eachDayOfInterval and
\* eachWeekOfInterval return [] for an interval with an Invalid Date; TRUE models
\* date-fns 2, where they throw RangeError("Invalid interval").
StrictIntervals == FALSE

\* compareAsc and compareLocalAsc: -1, 0 or 1 by the time values, NaN when either
\* date is invalid.
compareAsc(a, b) ==
    IF ~IsValidDate(a) \/ ~IsValidDate(b) THEN NaN
    ELSE IF DateLt(a, b) THEN 0 - 1
    ELSE IF DateLt(b, a) THEN 1
    ELSE 0

startOfDay(date) == IF IsValidDate(date) THEN AtTick(date, 0) ELSE InvalidDate

endOfDay(date) == IF IsValidDate(date) THEN AtTick(date, MaxTod) ELSE InvalidDate

startOfMonth(date) ==
    IF IsValidDate(date) THEN AtTick(setDate(date, 1), 0) ELSE InvalidDate

\* setFullYear(year, month + 1, 0) then setHours(23, 59, 59, 999).
endOfMonth(date) ==
    IF IsValidDate(date)
    THEN LET c == CivilFromDays(date.day)
             ym == c.y * 12 + c.m
         IN  [day |-> DaysFromCivil(ym \div 12, (ym % 12) + 1, 0), tod |-> MaxTod]
    ELSE InvalidDate

isLastDayOfMonth(date) == endOfDay(date) = endOfMonth(date)

\* startOfWeek(date, { weekStartsOn: 1 }): the Monday on or before the date, 00:00.
startOfWeek(date) ==
    IF IsValidDate(date)
    THEN LET day  == getDay(date)
             diff == (IF day < 1 THEN 7 ELSE 0) + day - 1
         IN  AtTick(setDate(date, getDate(date) - diff), 0)
    ELSE InvalidDate

isWeekend(date) == IsValidDate(date) /\ getDay(date) \in {0, 6}

differenceInCalendarDays(dateLeft, dateRight) == dateLeft.day - dateRight.day

\* The number of full days between the dates: the calendar difference, less one
\* when the last day is not complete by the time of day.
Abs(n) == IF n < 0 THEN 0 - n ELSE n

\* differenceInDays once sign and difference are known.
FullDays(dateLeft, dateRight, sign, difference) ==
    LET moved            == setDate(dateLeft, getDate(dateLeft) - sign * difference)
        isLastDayNotFull == IF compareAsc(moved, dateRight) = 0 - sign THEN 1 ELSE 0
    IN  sign * (difference - isLastDayNotFull)

differenceInDays(dateLeft, dateRight) ==
    IF ~IsValidDate(dateLeft) \/ ~IsValidDate(dateRight) THEN NaN
    ELSE FullDays(dateLeft, dateRight, compareAsc(dateLeft, dateRight),
                  Abs(differenceInCalendarDays(dateLeft, dateRight)))

differenceInCalendarMonths(dateLeft, dateRight) ==
    (getFullYear(dateLeft) - getFullYear(dateRight)) * 12
        + (getMonth(dateLeft) - getMonth(dateRight))

\* differenceInMonths once sign, difference and the working copy of dateLeft, set
\* to the 30th when dateLeft is a day after 27 February, are known.
FullMonths(dateLeft, dateRight, sign, difference, workingLaterDate) ==
    LET moved   == setMonth(workingLaterDate,
                            getMonth(workingLaterDate) - sign * difference)
        notFull == compareAsc(moved, dateRight) = 0 - sign
        oneFullMonth ==
            /\ isLastDayOfMonth(dateLeft)
            /\ difference = 1
            /\ sign = 1
        isLastMonthNotFull == notFull /\ ~oneFullMonth
    IN  sign * (difference - (IF isLastMonthNotFull THEN 1 ELSE 0))

\* differenceInMonths once sign and difference are known.
MonthsBySign(dateLeft, dateRight, sign, difference) ==
    IF difference < 1 THEN 0
    ELSE FullMonths(dateLeft, dateRight, sign, difference,
                    IF getMonth(dateLeft) = 1 /\ getDate(dateLeft) > 27
                    THEN setDate(dateLeft, 30)
                    ELSE dateLeft)

\* The number of full months between the dates.
differenceInMonths(dateLeft, dateRight) ==
    IF ~IsValidDate(dateLeft) \/ ~IsValidDate(dateRight) THEN NaN
    ELSE MonthsBySign(dateLeft, dateRight, compareAsc(dateLeft, dateRight),
                      Abs(differenceInCalendarMonths(dateLeft, dateRight)))

\* The loop of eachDayOfInterval: while currentDate <= endDate, push it and move
\* it to 00:00 of the next day.
RECURSIVE DaysUpTo(_, _, _)
DaysUpTo(dates, currentDate, endDate) ==
    IF DateLe(currentDate, endDate)
    THEN DaysUpTo(Append(dates, currentDate),
                  [day |-> currentDate.day + 1, tod |-> 0], endDate)
    ELSE dates

\* eachDayOfInterval({ start, end }) for an interval that is not reversed.
eachDayOfInterval(start, end) ==
    IF ~IsValidDate(start) \/ ~IsValidDate(end) THEN <<>>
    ELSE DaysUpTo(<<>>, startOfDay(start), end)

\* The loop of eachWeekOfInterval: while currentDate is not after the start of
\* the last week, push it and move it one week on.
RECURSIVE WeeksUpTo(_, _, _)
WeeksUpTo(dates, currentDate, endDateWeek) ==
    IF DateLe(currentDate, endDateWeek)
    THEN WeeksUpTo(Append(dates, currentDate),
                   [day |-> currentDate.day + 7, tod |-> 0], endDateWeek)
    ELSE dates

\* eachWeekOfInterval({ start, end }, { weekStartsOn: 1 }).
eachWeekOfInterval(start, end) ==
    IF ~IsValidDate(start) \/ ~IsValidDate(end) THEN <<>>
    ELSE WeeksUpTo(<<>>, startOfWeek(start), startOfWeek(end))

\* Whether eachDayOfInterval / eachWeekOfInterval throws for this interval.
IntervalThrows(start, end) ==
    StrictIntervals /\ (~IsValidDate(start) \/ ~IsValidDate(end))

----------------------------------------------------------------------------
(* components/interval-date-range-picker.tsx: calculateSegments. *)

IntervalTypes == {"day", "week", "weekend", "month"}

\* setError(null).
NullError == "null"

InvalidRangeError == "End date cannot be before start date"

ComputationError == "Error calculating date segments"

EmptyResultError(interval) ==
    "No valid " \o interval \o " segments found in the selected range"

\* eachDayOfInterval(...).map(date => ({ start: date, end: date })).
PickerDaySegments(days) == [k \in 1 .. Len(days) |-> [start |-> days[k], end |-> days[k]]]

\* The map callback of the 'week' case without the comparison with the selected
\* end date: every segment runs to its Friday.
PickerWeekSegment_Unclipped(weekStart, end) ==
    [start |-> weekStart, end |-> setDate(weekStart, getDate(weekStart) + 4)]

\* The map callback of the 'week' case with weekEnd a week after weekStart: the
\* Monday of the next segment.
PickerWeekSegment_ToNextMonday(weekStart, end) ==
    [start |-> weekStart, end |-> setDate(weekStart, getDate(weekStart) + 7)]

\* The map callback of the 'week' case: weekEnd is a copy of weekStart moved four
\* days on, and the segment ends at the selected end date when weekEnd is later.
PickerWeekSegment(weekStart, end) ==
    LET weekEnd     == setDate(weekStart, getDate(weekStart) + 4)
        adjustedEnd == IF DateLt(end, weekEnd) THEN end ELSE weekEnd
    IN  [start |-> weekStart, end |-> adjustedEnd]

\* eachWeekOfInterval(...).map(weekStart => ...).
PickerWeekSegments(weeks, end) ==
    [k \in 1 .. Len(weeks) |-> PickerWeekSegment(weeks[k], end)]

\* The 'weekend' case without its filter: a segment for every day.
PickerWeekendSegments_Unfiltered(allDays) == PickerDaySegments(allDays)

\* allDays.filter(date => isWeekend(date)).map(date => ({ start: date, end: date })).
PickerWeekendSegments(allDays) ==
    PickerDaySegments(SelectSeq(allDays, isWeekend))

\* The for loop of the 'month' case, from iteration i on.
RECURSIVE PickerMonthLoop(_, _, _, _, _)
PickerMonthLoop(i, count, currentMonth, start, end) ==
    IF NumLt(i, count)
    THEN LET monthStart == IF i = 0 THEN start ELSE startOfMonth(currentMonth)
             monthEnd   == IF i = count - 1 THEN end ELSE endOfMonth(currentMonth)
         IN  <<[start |-> monthStart, end |-> monthEnd]>>
                 \o PickerMonthLoop(i + 1, count,
                        setMonth(currentMonth, getMonth(currentMonth) + 1), start, end)
    ELSE <<>>

\* count = calculatedSegments.length.
PickerCounted(calculatedSegments) ==
    [count |-> Len(calculatedSegments), calculatedSegments |-> calculatedSegments]

\* The 'month' case once count, the full months plus one, is known.
PickerMonthCase(start, end, count) ==
    IF NumLe(count, 0)
    THEN [count |-> 1, calculatedSegments |-> <<[start |-> start, end |-> end]>>]
    ELSE [count |-> count,
          calculatedSegments |-> PickerMonthLoop(0, count, startOfMonth(start), start, end)]

\* The switch of calculateSegments: the count and the segments it computes.
PickerSwitch(start, end, interval) ==
    CASE interval = "day" ->
           [count |-> NumAdd(differenceInDays(end, start), 1),
            calculatedSegments |-> PickerDaySegments(eachDayOfInterval(start, end))]
      [] interval = "week" ->
           PickerCounted(PickerWeekSegments(eachWeekOfInterval(start, end), end))
      [] interval = "weekend" ->
           PickerCounted(PickerWeekendSegments(eachDayOfInterval(start, end)))
      [] interval = "month" ->
           PickerMonthCase(start, end, NumAdd(differenceInMonths(end, start), 1))

\* The arguments of one call of the onDatesChange prop.
OnDatesChangeArgs(s, e, count, segs) ==
    [called |-> TRUE, startDate |-> s, endDate |-> e,
     segmentCount |-> count, segments |-> segs]

\* The end of the try block with the message for a count up to 1.
PickerOutcome_ErrorUpToOne(start, end, interval, r) ==
    [error |-> IF NumLe(r.count, 1) THEN EmptyResultError(interval) ELSE NullError,
     segmentCount |-> r.count,
     segments |-> SomeSegments(r.calculatedSegments),
     forwarded |-> OnDatesChangeArgs(start, end, r.count,
                                     SomeSegments(r.calculatedSegments))]

\* The end of calculateSegments' try block: the error for a count of 0, the
\* setters and the call of onDatesChange, r being what the switch computed.
PickerOutcome(start, end, interval, r) ==
    [error |-> IF r.count = 0 THEN EmptyResultError(interval) ELSE NullError,
     segmentCount |-> r.count,
     segments |-> SomeSegments(r.calculatedSegments),
     forwarded |-> OnDatesChangeArgs(start, end, r.count,
                                     SomeSegments(r.calculatedSegments))]

\* calculateSegments without the message for a count of 0.
calculateSegments_NoEmptyResult(start, end, interval) ==
    IF DateLt(end, start)
    THEN [error |-> InvalidRangeError, segmentCount |-> 0, segments |-> NullSegments,
          forwarded |-> OnDatesChangeArgs(start, end, 0, NullSegments)]
    ELSE [PickerOutcome(start, end, interval, PickerSwitch(start, end, interval))
              EXCEPT !.error = NullError]

\* What one call of calculateSegments leaves behind: the error, segmentCount and
\* segments it sets, and the arguments it hands to onDatesChange.
calculateSegments(start, end, interval) ==
    IF DateLt(end, start)
    THEN [error |-> InvalidRangeError, segmentCount |-> 0, segments |-> NullSegments,
          forwarded |-> OnDatesChangeArgs(start, end, 0, NullSegments)]
    ELSE IF interval # "month" /\ IntervalThrows(start, end)
    THEN [error |-> ComputationError, segmentCount |-> 0, segments |-> NullSegments,
          forwarded |-> OnDatesChangeArgs(start, end, 0, NullSegments)]
    ELSE PickerOutcome(start, end, interval, PickerSwitch(start, end, interval))

----------------------------------------------------------------------------
(* components/forms/invoice-form.tsx: calculateDateSegments, the form's own copy. *)

FormDaySegments(days) == [k \in 1 .. Len(days) |-> [start |-> days[k], end |-> days[k]]]

\* The form's map callback of the 'week' case without the comparison with the
\* selected end date.
FormWeekSegment_Unclipped(weekStart, end) ==
    [start |-> weekStart, end |-> setDate(weekStart, getDate(weekStart) + 4)]

FormWeekSegment(weekStart, end) ==
    LET weekEnd     == setDate(weekStart, getDate(weekStart) + 4)
        adjustedEnd == IF DateLt(end, weekEnd) THEN end ELSE weekEnd
    IN  [start |-> weekStart, end |-> adjustedEnd]

FormWeekSegments(weeks, end) ==
    [k \in 1 .. Len(weeks) |-> FormWeekSegment(weeks[k], end)]

FormWeekendSegments(allDays) ==
    FormDaySegments(SelectSeq(allDays, isWeekend))

RECURSIVE FormMonthLoop(_, _, _, _, _)
FormMonthLoop(i, segmentCount, currentMonth, start, end) ==
    IF NumLt(i, segmentCount)
    THEN LET monthStart == IF i = 0 THEN start ELSE startOfMonth(currentMonth)
             monthEnd   == IF i = segmentCount - 1 THEN end ELSE endOfMonth(currentMonth)
         IN  <<[start |-> monthStart, end |-> monthEnd]>>
                 \o FormMonthLoop(i + 1, segmentCount,
                        setMonth(currentMonth, getMonth(currentMonth) + 1), start, end)
    ELSE <<>>

\* segmentCount = segments.length.
FormCounted(segs) == [segmentCount |-> Len(segs), segments |-> segs]

\* The 'month' case once segmentCount, the full months plus one, is known.
FormMonthCase(start, end, count) ==
    IF NumLe(count, 0)
    THEN [segmentCount |-> 1, segments |-> <<[start |-> start, end |-> end]>>]
    ELSE [segmentCount |-> count,
          segments |-> FormMonthLoop(0, count, startOfMonth(start), start, end)]

\* The switch of calculateDateSegments.
FormSwitch(start, end, interval) ==
    CASE interval = "day" ->
           [segmentCount |-> NumAdd(differenceInDays(end, start), 1),
            segments |-> FormDaySegments(eachDayOfInterval(start, end))]
      [] interval = "week" ->
           FormCounted(FormWeekSegments(eachWeekOfInterval(start, end), end))
      [] interval = "weekend" ->
           FormCounted(FormWeekendSegments(eachDayOfInterval(start, end)))
      [] interval = "month" ->
           FormMonthCase(start, end, NumAdd(differenceInMonths(end, start), 1))

\* return { segments, segmentCount }, r being what the switch computed.
FormOutcome(r) == [segments |-> SomeSegments(r.segments), segmentCount |-> r.segmentCount]

\* calculateDateSegments returns { segments, segmentCount }; it has no error.
calculateDateSegments(start, end, interval) ==
    IF DateLt(end, start)
    THEN [segments |-> NullSegments, segmentCount |-> 0]
    ELSE IF interval # "month" /\ IntervalThrows(start, end)
    THEN [segments |-> NullSegments, segmentCount |-> 0]
    ELSE FormOutcome(FormSwitch(start, end, interval))

----------------------------------------------------------------------------
(* The state of the page. *)

VARIABLES
    mounted,        \* which component the page shows: "picker" or "form"
    intervalType,   \* IntervalDateRangePicker state
    startDate,
    endDate,
    segmentCount,
    segments,
    error,
    forwarded,      \* the last call of the picker's onDatesChange prop
    amount,         \* the picker's amount prop, a text
    intervalCards,  \* InvoiceForm state: the interval item cards
    storage         \* localStorage['invoiceIntervalCards']

vars == <<mounted, intervalType, startDate, endDate, segmentCount, segments, error,
          forwarded, amount, intervalCards, storage>>

pickerVars == <<intervalType, startDate, endDate, segmentCount, segments, error,
                forwarded, amount>>

formVars == <<intervalCards, storage>>

\* No call of onDatesChange yet.
NotForwarded ==
    [called |-> FALSE, startDate |-> NullDate, endDate |-> NullDate,
     segmentCount |-> 0, segments |-> NullSegments]

\* The card InvoiceForm starts with and addIntervalCard appends.
NewCard(id) ==
    [id |-> id, intervalType |-> "day", startDate |-> NullDate, endDate |-> NullDate,
     segmentCount |-> 0, segments |-> NullSegments,
     amount |-> <<"0", ".", "0", "0">>, description |-> ""]

\* Nothing stored under the key.
NoItem == [present |-> FALSE, cards |-> <<>>]

Init ==
    /\ mounted \in {"picker", "form"}
    /\ intervalType = "day"
    /\ startDate = NullDate
    /\ endDate = NullDate
    /\ segmentCount = 0
    /\ segments = NullSegments
    /\ error = NullError
    /\ forwarded = NotForwarded
    /\ amount = <<>>
    /\ intervalCards = <<NewCard(1)>>
    /\ storage = NoItem

----------------------------------------------------------------------------
(* The dates the user picks in a DateRangePicker. *)

\* The first start date offered.
BaseDay == DaysFromCivil(2023, 12, 15)

Tods == 0 .. MaxTod

StartDates == {[day |-> BaseDay + o, tod |-> t] : o \in 0 .. MaxStartOffset, t \in Tods}

EndDatesFor(s) == {[day |-> s.day + k, tod |-> t] : k \in (0 - MaxBack) .. MaxSpan, t \in Tods}

\* Only one of the two dates is set.
PartialSelections ==
    {<<s, NullDate>> : s \in StartDates} \cup {<<NullDate, s>> : s \in StartDates}

\* An Invalid Date reaches a component as new Date(<text that is no date>).
InvalidSelections ==
    {<<s, InvalidDate>> : s \in StartDates} \cup {<<InvalidDate, s>> : s \in StartDates}
        \cup {<<InvalidDate, InvalidDate>>}

----------------------------------------------------------------------------
(* components/interval-date-range-picker.tsx: IntervalDateRangePicker. *)

handleDateRangeChange(newStartDate, newEndDate) ==
    /\ startDate' = newStartDate
    /\ endDate' = newEndDate
    /\ IF Truthy(newStartDate) /\ Truthy(newEndDate)
       THEN \E r \in {calculateSegments(newStartDate, newEndDate, intervalType)} :
                /\ error' = r.error
                /\ segmentCount' = r.segmentCount
                /\ segments' = r.segments
                /\ forwarded' = r.forwarded
       ELSE /\ segmentCount' = 0
            /\ segments' = NullSegments
            /\ error' = NullError
            /\ forwarded' = OnDatesChangeArgs(NullDate, NullDate, 0, NullSegments)
    /\ UNCHANGED <<intervalType, amount>>

\* DateRangePicker.handleApply in the picker: onApply gets copies of the two dates
\* the user picked.
PickerApply(s, e) ==
    /\ mounted = "picker"
    /\ handleDateRangeChange(s, e)
    /\ UNCHANGED <<mounted, formVars>>

\* DateRangePicker.handleClear in the picker.
PickerClear ==
    /\ mounted = "picker"
    /\ handleDateRangeChange(NullDate, NullDate)
    /\ UNCHANGED <<mounted, formVars>>

handleIntervalTypeChange(newIntervalType) ==
    /\ mounted = "picker"
    /\ intervalType' = newIntervalType
    /\ IF Truthy(startDate) /\ Truthy(endDate)
       THEN \E r \in {calculateSegments(startDate, endDate, newIntervalType)} :
                /\ error' = r.error
                /\ segmentCount' = r.segmentCount
                /\ segments' = r.segments
                /\ forwarded' = r.forwarded
       ELSE UNCHANGED <<error, segmentCount, segments, forwarded>>
    /\ UNCHANGED <<startDate, endDate, amount>>
    /\ UNCHANGED <<mounted, formVars>>

----------------------------------------------------------------------------
(* components/forms/invoice-form.tsx: InvoiceForm. *)

\* A text that spells out the day before.
toISOString_DayBefore(date) ==
    LET c == CivilFromDays(date.day - 1)
    IN  [y |-> c.y, m |-> c.m, d |-> c.d, t |-> date.tod]

\* Date.prototype.toISOString, as the fields the text spells out.
toISOString(date) ==
    LET c == CivilFromDays(date.day)
    IN  [y |-> c.y, m |-> c.m, d |-> c.d, t |-> date.tod]

\* null in the JSON text where a date string is expected.
NullIso == [y |-> 0, m |-> 0, d |-> 0, t |-> 0 - 2]

SerializeSegments(items) ==
    [k \in 1 .. Len(items) |->
        [start |-> toISOString(items[k].start), end |-> toISOString(items[k].end)]]

SerializeCard(card) ==
    [id |-> card.id, intervalType |-> card.intervalType,
     startDate |-> IF Truthy(card.startDate) THEN toISOString(card.startDate) ELSE NullIso,
     endDate |-> IF Truthy(card.endDate) THEN toISOString(card.endDate) ELSE NullIso,
     segmentCount |-> card.segmentCount,
     segments |-> IF card.segments.isNull THEN NullSegments
                  ELSE SomeSegments(SerializeSegments(card.segments.items)),
     amount |-> card.amount, description |-> card.description]

serializeIntervalCards(cards) == [i \in 1 .. Len(cards) |-> SerializeCard(cards[i])]

\* toISOString throws RangeError on an Invalid Date.
SerializeThrows(cards) ==
    \E i \in 1 .. Len(cards) :
        \/ cards[i].startDate = InvalidDate
        \/ cards[i].endDate = InvalidDate
        \/ \E k \in 1 .. Len(cards[i].segments.items) :
               \/ cards[i].segments.items[k].start = InvalidDate
               \/ cards[i].segments.items[k].end = InvalidDate

\* localStorage.setItem('invoiceIntervalCards', JSON.stringify(serializeIntervalCards(cards))).
SaveCards(cards) ==
    storage' = IF SerializeThrows(cards) THEN storage
               ELSE [present |-> TRUE, cards |-> serializeIntervalCards(cards)]

handleDatesChange(id, newStart, newEnd, newCount, newSegments) ==
    \E updatedCards \in
            {[i \in 1 .. Len(intervalCards) |->
                IF intervalCards[i].id = id
                THEN [intervalCards[i] EXCEPT !.startDate = newStart, !.endDate = newEnd,
                          !.segmentCount = newCount, !.segments = newSegments]
                ELSE intervalCards[i]]} :
        /\ intervalCards' = updatedCards
        /\ SaveCards(updatedCards)

\* onApply with an engine that keeps what it returned: the segments and the count
\* of a call are added to those the card holds from the call before.
CardOnApply_Accumulating(card, newStart, newEnd) ==
    IF Truthy(newStart) /\ Truthy(newEnd)
    THEN \E r \in {calculateDateSegments(newStart, newEnd, card.intervalType)} :
             handleDatesChange(card.id, newStart, newEnd,
                               NumAdd(card.segmentCount, r.segmentCount),
                               IF r.segments.isNull THEN r.segments
                               ELSE SomeSegments(card.segments.items \o r.segments.items))
    ELSE handleDatesChange(card.id, NullDate, NullDate, 0, NullSegments)

\* The onApply prop a card gives its DateRangePicker.
CardOnApply(card, newStart, newEnd) ==
    IF Truthy(newStart) /\ Truthy(newEnd)
    THEN \E r \in {calculateDateSegments(newStart, newEnd, card.intervalType)} :
             handleDatesChange(card.id, newStart, newEnd, r.segmentCount, r.segments)
    ELSE handleDatesChange(card.id, NullDate, NullDate, 0, NullSegments)

\* DateRangePicker.handleApply in card i.
FormApply(i, s, e) ==
    /\ mounted = "form"
    /\ i \in 1 .. Len(intervalCards)
    /\ CardOnApply(intervalCards[i], s, e)
    /\ UNCHANGED <<mounted, pickerVars>>

\* DateRangePicker.handleClear in card i.
FormClear(i) ==
    /\ mounted = "form"
    /\ i \in 1 .. Len(intervalCards)
    /\ CardOnApply(intervalCards[i], NullDate, NullDate)
    /\ UNCHANGED <<mounted, pickerVars>>

\* handleIntervalChange without the recalculation: the card keeps its segments.
handleIntervalChange_KeepsSegments(id, newIntervalType) ==
    /\ mounted = "form"
    /\ \E i \in 1 .. Len(intervalCards) :
        /\ intervalCards[i].id = id
        /\ intervalCards' = [intervalCards EXCEPT ![i].intervalType = newIntervalType]
    /\ SaveCards(intervalCards)
    /\ UNCHANGED <<mounted, pickerVars>>

\* handleIntervalChange writes the cards of the current render to storage: the
\* update it has just requested is not in them yet.
handleIntervalChange(id, newIntervalType) ==
    /\ mounted = "form"
    /\ \E i \in 1 .. Len(intervalCards) :
        /\ intervalCards[i].id = id
        /\ LET currentCard == intervalCards[i]
           IN  IF Truthy(currentCard.startDate) /\ Truthy(currentCard.endDate)
               THEN \E r \in {calculateDateSegments(currentCard.startDate,
                                                    currentCard.endDate, newIntervalType)} :
                        intervalCards' =
                            [intervalCards EXCEPT ![i] =
                                [currentCard EXCEPT !.intervalType = newIntervalType,
                                     !.segments = r.segments,
                                     !.segmentCount = r.segmentCount]]
               ELSE intervalCards' =
                        [intervalCards EXCEPT ![i].intervalType = newIntervalType]
    /\ SaveCards(intervalCards)
    /\ UNCHANGED <<mounted, pickerVars>>

----------------------------------------------------------------------------
(* The segmentation specification: the user chooses an interval type and applies *)
(* a date range to a picker, or to a card, that shows no dates.                  *)

\* The picker shows no dates.
PickerFresh == startDate = NullDate /\ endDate = NullDate

\* Card i shows no dates.
CardFresh(i) == intervalCards[i].startDate = NullDate /\ intervalCards[i].endDate = NullDate

PickerApplyRange ==
    /\ PickerFresh
    /\ \E s \in StartDates : \E e \in EndDatesFor(s) : PickerApply(s, e)

PickerApplyOdd ==
    /\ PickerFresh
    /\ \E p \in PartialSelections \cup InvalidSelections : PickerApply(p[1], p[2])

PickerChangeInterval == \E t \in IntervalTypes : handleIntervalTypeChange(t)

FormApplyRange ==
    \E i \in 1 .. Len(intervalCards) :
        /\ CardFresh(i)
        /\ \E s \in StartDates : \E e \in EndDatesFor(s) : FormApply(i, s, e)

FormApplyOdd ==
    \E i \in 1 .. Len(intervalCards) :
        /\ CardFresh(i)
        /\ \E p \in PartialSelections \cup InvalidSelections : FormApply(i, p[1], p[2])

FormClearDates == \E i \in 1 .. Len(intervalCards) : FormClear(i)

FormChangeInterval ==
    \E i \in 1 .. Len(intervalCards), t \in IntervalTypes :
        /\ CardFresh(i)
        /\ handleIntervalChange(intervalCards[i].id, t)

Next ==
    \/ PickerApplyRange
    \/ PickerApplyOdd
    \/ PickerClear
    \/ PickerChangeInterval
    \/ FormApplyRange
    \/ FormApplyOdd
    \/ FormClearDates
    \/ FormChangeInterval

Spec == Init /\ [][Next]_vars

----------------------------------------------------------------------------
(* Amount texts and the numbers JavaScript reads from them. *)

\* The characters an amount text is made of here: digits, the point, the exponent
\* letter and a letter that belongs to no number.
AmountChars == {"0", "1", "2", "5", ".", "e", "x"}

MaxAmountLen == 4

AmountTexts == UNION {[1 .. n -> AmountChars] : n \in 0 .. MaxAmountLen}

DigitChars == {"0", "1", "2", "3", "4", "5", "6", "7", "8", "9"}

DigitValue(c) ==
    CASE c = "0" -> 0 [] c = "1" -> 1 [] c = "2" -> 2 [] c = "3" -> 3 [] c = "4" -> 4
      [] c = "5" -> 5 [] c = "6" -> 6 [] c = "7" -> 7 [] c = "8" -> 8 [] c = "9" -> 9

DigitChar(n) ==
    CASE n = 0 -> "0" [] n = 1 -> "1" [] n = 2 -> "2" [] n = 3 -> "3" [] n = 4 -> "4"
      [] n = 5 -> "5" [] n = 6 -> "6" [] n = 7 -> "7" [] n = 8 -> "8" [] n = 9 -> "9"

RECURSIVE Pow10(_)
Pow10(k) == IF k <= 0 THEN 1 ELSE 10 * Pow10(k - 1)

RECURSIVE NumDigits(_)
NumDigits(n) == IF n < 10 THEN 1 ELSE 1 + NumDigits(n \div 10)

\* The decimal digits of a natural number, as a text.
RECURSIVE DigitString(_)
DigitString(n) ==
    IF n < 10 THEN <<DigitChar(n)>> ELSE Append(DigitString(n \div 10), DigitChar(n % 10))

Zeros(k) == [i \in 1 .. k |-> "0"]

\* A JavaScript number that is NaN or m * 10^e with m >= 0: the texts above carry
\* no sign.  m stays small; e carries the magnitude.
NotANumber == [nan |-> TRUE, m |-> 0, e |-> 0]

Number(m, e) == [nan |-> FALSE, m |-> m, e |-> IF m = 0 THEN 0 ELSE e]

\* The number of digits before the decimal point of m * 10^e, m > 0.
Magnitude(x) == NumDigits(x.m) + x.e

\* Above Number.MAX_VALUE, 1.797...e308, a number is Infinity.
IsInfinite(x) ==
    /\ ~x.nan
    /\ x.m > 0
    /\ \/ Magnitude(x) >= 310
       \/ /\ Magnitude(x) = 309
          /\ IF NumDigits(x.m) >= 4
             THEN x.m \div Pow10(NumDigits(x.m) - 4) >= 1798
             ELSE x.m * Pow10(4 - NumDigits(x.m)) >= 1798

\* The index after the run of digits that starts at index i.
RECURSIVE RunEnd(_, _)
RunEnd(text, i) ==
    IF i <= Len(text) /\ text[i] \in DigitChars THEN RunEnd(text, i + 1) ELSE i

\* The value of the digits text[i .. j - 1], on top of acc.
RECURSIVE DigitsValue(_, _, _, _)
DigitsValue(text, i, j, acc) ==
    IF i >= j THEN acc ELSE DigitsValue(text, i + 1, j, 10 * acc + DigitValue(text[i]))

\* parseFloat: the longest prefix that is a decimal literal (digits, a point,
\* digits, an exponent), NaN when that prefix holds no digit.
\* The exponent that starts at index i of the text: an "e" followed by digits.
ExponentAt(text, i) ==
    IF i < Len(text) /\ text[i] = "e" /\ text[i + 1] \in DigitChars
    THEN DigitsValue(text, i + 1, RunEnd(text, i + 1), 0)
    ELSE 0

\* The number whose integer digits end before index intEnd and whose fraction
\* digits, fracLen of them, end before index fracEnd.
DecimalLiteral(text, intEnd, fracEnd, fracLen) ==
    IF (intEnd - 1) + fracLen = 0 THEN NotANumber
    ELSE Number(DigitsValue(text, fracEnd - fracLen, fracEnd,
                            DigitsValue(text, 1, intEnd, 0)),
                ExponentAt(text, fracEnd) - fracLen)

\* The literal whose integer digits end before index intEnd.
LiteralFrom(text, intEnd) ==
    IF intEnd <= Len(text) /\ text[intEnd] = "."
    THEN DecimalLiteral(text, intEnd, RunEnd(text, intEnd + 1),
                        RunEnd(text, intEnd + 1) - intEnd - 1)
    ELSE DecimalLiteral(text, intEnd, intEnd, 0)

parseFloat(text) == LiteralFrom(text, RunEnd(text, 1))

\* x || 0 on a number: NaN and 0 are falsy.
OrZero(x) == IF x.nan \/ x.m = 0 THEN Number(0, 0) ELSE x

\* count * x for a count that is a natural number.
Times(count, x) == IF x.nan THEN NotANumber ELSE Number(count * x.m, x.e)

\* The digits of m without its trailing zeros.
RECURSIVE Significand(_)
Significand(m) == IF m % 10 = 0 THEN Significand(m \div 10) ELSE m

\* Number::toString of a finite x >= 10^21: exponential notation.
ToStringExponential(x) ==
    LET s == DigitString(Significand(x.m))
    IN  (IF Len(s) = 1 THEN s ELSE <<Head(s), ".">> \o Tail(s))
            \o <<"e", "+">> \o DigitString(Magnitude(x) - 1)

\* n hundredths as a text with two decimals.
FixedText(n) ==
    DigitString(n \div 100) \o <<".", DigitChar((n \div 10) % 10), DigitChar(n % 10)>>

\* q hundredths and r of the unit parts of a hundredth, to the nearest hundredth.
Rounded(q, r, unit, roundUp) ==
    IF 2 * r > unit \/ (2 * r = unit /\ roundUp) THEN q + 1 ELSE q

\* x.toFixed(2).  NaN and Infinity give their names, a number from 10^21 on gives
\* its exponential notation, any other the nearest multiple of 0.01.  The double
\* next to a decimal that lies halfway between two multiples of 0.01 is on one
\* side of it; the side is not computed here, roundUp chooses it.
toFixed(x, roundUp) ==
    IF x.nan THEN <<"N", "a", "N">>
    ELSE IF IsInfinite(x) THEN <<"I", "n", "f", "i", "n", "i", "t", "y">>
    ELSE IF x.m > 0 /\ Magnitude(x) >= 22 THEN ToStringExponential(x)
    ELSE IF x.e >= 0 THEN DigitString(x.m) \o Zeros(x.e) \o <<".", "0", "0">>
    ELSE IF x.e >= 0 - 2 THEN FixedText(x.m * Pow10(x.e + 2))
    ELSE FixedText(Rounded(x.m \div Pow10(0 - x.e - 2), x.m % Pow10(0 - x.e - 2),
                           Pow10(0 - x.e - 2), roundUp))

\* value.replace(/[^0-9.]/g, '').
StripNonNumeric(text) == SelectSeq(text, LAMBDA c : c \in DigitChars \cup {"."})

----------------------------------------------------------------------------
(* interval-date-range-picker.tsx: the total of the summary. *)

\* The amount prop, as the parent passes it.
PickerAmountProp(text) ==
    /\ mounted = "picker"
    /\ amount' = text
    /\ UNCHANGED <<mounted, intervalType, startDate, endDate, segmentCount, segments,
                   error, forwarded, formVars>>

\* calculateTotal of the picker.
calculateTotal(roundUp) ==
    IF IsNaN(segmentCount) \/ segmentCount = 0 \/ amount = <<>>
    THEN <<"0", ".", "0", "0">>
    ELSE toFixed(Times(segmentCount, OrZero(parseFloat(amount))), roundUp)

\* The summary, and the total in it, is rendered.
PickerSummaryShown == NumLt(0, segmentCount) /\ error = NullError

----------------------------------------------------------------------------
(* invoice-form.tsx: the amount of a card and the total the card shows. *)

\* handleAmountChange.
FormattedValue(numericValue, floatValue, roundUp) ==
    IF numericValue # <<>> /\ ~floatValue.nan
    THEN toFixed(floatValue, roundUp)
    ELSE <<"0", ".", "0", "0">>

handleAmountChange(id, value, roundUp) ==
    \E formattedValue \in {FormattedValue(StripNonNumeric(value),
                                          parseFloat(StripNonNumeric(value)), roundUp)} :
        \E updatedCards \in
                {[i \in 1 .. Len(intervalCards) |->
                    IF intervalCards[i].id = id
                    THEN [intervalCards[i] EXCEPT !.amount = formattedValue]
                    ELSE intervalCards[i]]} :
            /\ intervalCards' = updatedCards
            /\ SaveCards(updatedCards)
            /\ UNCHANGED <<mounted, pickerVars>>

\* updateIntervalCard(id, 'amount', value).
updateIntervalCardAmount(id, value) ==
    /\ intervalCards' = [i \in 1 .. Len(intervalCards) |->
                            IF intervalCards[i].id = id
                            THEN [intervalCards[i] EXCEPT !.amount = value]
                            ELSE intervalCards[i]]
    /\ UNCHANGED <<mounted, pickerVars, storage>>

\* The index of the second point of a text, 0 when it has fewer than two.
SecondPoint(text) ==
    LET points == {i \in 1 .. Len(text) : text[i] = "."}
        first  == CHOOSE i \in points : \A j \in points : i <= j
    IN  IF Cardinality(points) < 2 THEN 0
        ELSE CHOOSE i \in points \ {first} : \A j \in points \ {first} : i <= j

\* handleAmountInputChange: the typed text without its non-numeric characters;
\* with more than one point, split('.') and the joins drop the second.
DropPoint(numericValue, second) ==
    IF second = 0 THEN numericValue
    ELSE [i \in 1 .. Len(numericValue) - 1 |->
             IF i < second THEN numericValue[i] ELSE numericValue[i + 1]]

handleAmountInputChange(id, rawValue) ==
    /\ mounted = "form"
    /\ updateIntervalCardAmount(id, DropPoint(StripNonNumeric(rawValue),
                                              SecondPoint(StripNonNumeric(rawValue))))

\* The value of the amount input of a card.
AmountInputValue(card) == IF card.amount = <<"0", ".", "0", "0">> THEN <<>> ELSE card.amount

\* handleAmountInputBlur.
handleAmountInputBlur(id, value, roundUp) ==
    /\ mounted = "form"
    /\ \E floatValue \in {parseFloat(StripNonNumeric(value))} :
           IF value = <<>>
           THEN handleAmountChange(id, <<"0", ".", "0", "0">>, roundUp)
           ELSE IF ~floatValue.nan
           THEN handleAmountChange(id, toFixed(floatValue, roundUp), roundUp)
           ELSE UNCHANGED vars

\* The total a card shows.
CardTotal(card, roundUp) ==
    toFixed(Times(card.segmentCount, OrZero(parseFloat(card.amount))), roundUp)

\* The card shows its segments, its amount and its total.
CardSummaryShown(card) == ~card.segments.isNull /\ NumLt(0, card.segmentCount)

----------------------------------------------------------------------------
(* The totals specification: a short range of days is applied to the picker or *)
(* to the first card, and an amount text is given.                             *)

MaxTotalSpan == 4

TotalEndDates == {[day |-> BaseDay + k, tod |-> 0] : k \in 0 .. MaxTotalSpan}

TotalPickerApply ==
    /\ PickerFresh
    /\ \E e \in TotalEndDates : PickerApply([day |-> BaseDay, tod |-> 0], e)

\* The parent passes an amount text in place of the empty one.
TotalPickerAmount ==
    /\ amount = <<>>
    /\ \E text \in AmountTexts : PickerAmountProp(text)

TotalFormApply ==
    /\ CardFresh(1)
    /\ \E e \in TotalEndDates : FormApply(1, [day |-> BaseDay, tod |-> 0], e)

\* The user types into the empty amount input of the first card.
TotalFormType ==
    /\ AmountInputValue(intervalCards[1]) = <<>>
    /\ \E text \in AmountTexts : handleAmountInputChange(intervalCards[1].id, text)

\* The amount input of the first card loses the focus.
TotalFormBlur ==
    \E roundUp \in BOOLEAN :
        handleAmountInputBlur(intervalCards[1].id, AmountInputValue(intervalCards[1]),
                              roundUp)

NextTotal ==
    \/ TotalPickerApply
    \/ TotalPickerAmount
    \/ TotalFormApply
    \/ TotalFormType
    \/ TotalFormBlur

SpecTotal == Init /\ [][NextTotal]_vars

----------------------------------------------------------------------------
(* interval-date-range-picker.tsx: the preview list of the summary.  A text is *)
(* the sequence of the pieces its template literal puts together.             *)

monthNames ==
    <<"Jan", "Feb", "Mar", "Apr", "May", "Jun", "Jul", "Aug", "Sep", "Oct", "Nov", "Dec">>

MonthName(date) == monthNames[getMonth(date) + 1]

\* The switch of formatPreviewItem: the label of a segment.
PreviewLabel(segment) ==
    CASE intervalType = "day" ->
           <<"Daily rate - ", MonthName(segment.start), " ">>
               \o DigitString(getDate(segment.start))
      [] intervalType = "week" ->
           <<"Weekly rate - ", MonthName(segment.start), " ">>
               \o DigitString(getDate(segment.start)) \o <<"-">>
               \o (IF getMonth(segment.end) # getMonth(segment.start)
                   THEN <<MonthName(segment.end), " ">> ELSE <<>>)
               \o DigitString(getDate(segment.end))
      [] intervalType = "weekend" ->
           <<"Weekend - ", IF getDay(segment.start) = 0 THEN "Sun" ELSE "Sat", ", ",
             MonthName(segment.start), " ">>
               \o DigitString(getDate(segment.start))
      [] intervalType = "month" ->
           IF getMonth(segment.start) = getMonth(segment.end)
           THEN <<"Monthly rate - ", MonthName(segment.start), " ">>
                    \o DigitString(getFullYear(segment.start))
           ELSE <<"Monthly rate - ", MonthName(segment.start), "-", MonthName(segment.end)>>

\* `+ ${segmentCount - 3} more ${intervalType}(s)...`.
MoreLine == <<"+ ">> \o DigitString(segmentCount - 3) \o <<" more ", intervalType, "(s)...">>

\* formatPreviewItem(segment, index), index counted from 0; '' is <<>>.
formatPreviewItem(segment, index) ==
    IF index >= 3 /\ segmentCount > 4 THEN MoreLine
    ELSE IF index >= 3 THEN <<>>
    ELSE PreviewLabel(segment)

\* The preview list is rendered: the summary is, and segments is a non-empty array.
PreviewShown ==
    /\ mounted = "picker"
    /\ PickerSummaryShown
    /\ ~segments.isNull
    /\ Len(segments.items) > 0

\* The <li> elements of the preview list: one for each segment whose preview text
\* is not empty.
PreviewLines ==
    SelectSeq([k \in 1 .. Len(segments.items) |-> formatPreviewItem(segments.items[k], k - 1)],
              LAMBDA previewText : previewText # <<>>)

----------------------------------------------------------------------------
(* invoice-form.tsx: the line items of the invoice; lib/utils.ts: formatDateRange. *)

\* format(date, 'dd').
TwoDigits(n) == IF n < 10 THEN <<"0">> \o DigitString(n) ELSE DigitString(n)

\* formatDateRange: '' without both dates, and '' when format throws RangeError on
\* an Invalid Date.
formatDateRange(start, end) ==
    IF ~Truthy(start) \/ ~Truthy(end) THEN <<>>
    ELSE IF ~IsValidDate(start) \/ ~IsValidDate(end) THEN <<>>
    ELSE <<MonthName(start), " ">> \o TwoDigits(getDate(start)) \o <<" - ">>
             \o <<MonthName(end), " ">> \o TwoDigits(getDate(end)) \o <<" ">>
             \o DigitString(getFullYear(end))

\* Date.prototype.toLocaleDateString() of a valid date, in the en-US form.
toLocaleDateString(date) ==
    DigitString(getMonth(date) + 1) \o <<"/">> \o DigitString(getDate(date)) \o <<"/">>
        \o DigitString(getFullYear(date))

\* x || y on two Dates or nulls.
DateOr(x, y) == IF Truthy(x) THEN x ELSE y

\* card.startDate && card.endDate && card.segments && card.segmentCount > 0.
CardHasItems(card) ==
    /\ Truthy(card.startDate)
    /\ Truthy(card.endDate)
    /\ ~card.segments.isNull
    /\ NumLt(0, card.segmentCount)

hasValidItems(cards) == \E i \in 1 .. Len(cards) : CardHasItems(cards[i])

\* The item of a card when no card has valid items; now is new Date().
DefaultItem(card, now, roundUp) ==
    [description   |-> IF card.description # "" THEN card.description ELSE "Service",
     date          |-> IF Truthy(card.startDate) /\ Truthy(card.endDate)
                       THEN formatDateRange(card.startDate, card.endDate)
                       ELSE toLocaleDateString(now),
     startDate     |-> DateOr(card.startDate, now),
     endDate       |-> DateOr(card.endDate, now),
     rate          |-> <<"0", ".", "0", "0">>,
     total         |-> toFixed(OrZero(parseFloat(card.amount)), roundUp),
     intervalType  |-> card.intervalType,
     segmentCount  |-> 1,
     segments      |-> card.segments]

\* The item of a card without valid segments when some card has valid items.
FallbackItem(card, now, roundUp) ==
    [description   |-> IF card.description # "" THEN card.description ELSE "Service",
     date          |-> toLocaleDateString(now),
     startDate     |-> now,
     endDate       |-> now,
     rate          |-> <<"0", ".", "0", "0">>,
     total         |-> toFixed(OrZero(parseFloat(card.amount)), roundUp),
     intervalType  |-> card.intervalType,
     segmentCount  |-> 1,
     segments      |-> NullSegments]

\* The item of one segment, with the total of the whole card.
SegmentItem_TotalOfCard(card, segment, roundUp) ==
    [description   |-> card.description,
     date          |-> formatDateRange(segment.start, segment.end),
     startDate     |-> segment.start,
     endDate       |-> segment.end,
     rate          |-> <<"0", ".", "0", "0">>,
     total         |-> CardTotal(card, roundUp),
     intervalType  |-> card.intervalType,
     segmentCount  |-> 1,
     segments      |-> SomeSegments(<<segment>>)]

\* The item of one segment of a card.
SegmentItem(card, segment, roundUp) ==
    [description   |-> card.description,
     date          |-> formatDateRange(segment.start, segment.end),
     startDate     |-> segment.start,
     endDate       |-> segment.end,
     rate          |-> <<"0", ".", "0", "0">>,
     total         |-> toFixed(OrZero(parseFloat(card.amount)), roundUp),
     intervalType  |-> card.intervalType,
     segmentCount  |-> 1,
     segments      |-> SomeSegments(<<segment>>)]

\* The body of the second forEach of generateInvoiceItems: the items one card adds.
CardItems(card, now, roundUp) ==
    IF \/ ~Truthy(card.startDate)
       \/ ~Truthy(card.endDate)
       \/ card.segments.isNull
       \/ card.segmentCount = 0
    THEN <<FallbackItem(card, now, roundUp)>>
    ELSE [k \in 1 .. Len(card.segments.items) |->
             SegmentItem(card, card.segments.items[k], roundUp)]

RECURSIVE ItemsFrom(_, _, _, _)
ItemsFrom(cards, i, now, roundUp) ==
    IF i > Len(cards) THEN <<>>
    ELSE CardItems(cards[i], now, roundUp) \o ItemsFrom(cards, i + 1, now, roundUp)

\* generateInvoiceItems of the cards, called when the clock reads now; toFixed
\* resolves a tie as roundUp says.
generateInvoiceItems(cards, now, roundUp) ==
    IF ~hasValidItems(cards)
    THEN [i \in 1 .. Len(cards) |-> DefaultItem(cards[i], now, roundUp)]
    ELSE ItemsFrom(cards, 1, now, roundUp)

----------------------------------------------------------------------------
(* invoice-form.tsx: the card list, the description, the submission and the *)
(* effect that loads the saved cards on mount.                              *)

MaxCards == 2

\* crypto.randomUUID(): an id no card of the list has.
FreshId(cards) == CHOOSE id \in 1 .. Len(cards) + 1 : \A i \in 1 .. Len(cards) : cards[i].id # id

\* addIntervalCard: the list is not saved.
addIntervalCard ==
    /\ mounted = "form"
    /\ intervalCards' = Append(intervalCards, NewCard(FreshId(intervalCards)))
    /\ UNCHANGED <<mounted, pickerVars, storage>>

\* removeIntervalCard without its first test: the only card is removed too.
removeIntervalCard_NoGuard(id) ==
    /\ mounted = "form"
    /\ intervalCards' = SelectSeq(intervalCards, LAMBDA card : card.id # id)
    /\ UNCHANGED <<mounted, pickerVars, storage>>

\* removeIntervalCard: the list is not saved.
removeIntervalCard(id) ==
    /\ mounted = "form"
    /\ IF Len(intervalCards) = 1
       THEN UNCHANGED intervalCards
       ELSE intervalCards' = SelectSeq(intervalCards, LAMBDA card : card.id # id)
    /\ UNCHANGED <<mounted, pickerVars, storage>>

handleDescriptionChange(id, value) ==
    /\ mounted = "form"
    /\ \E updatedCards \in
            {[i \in 1 .. Len(intervalCards) |->
                IF intervalCards[i].id = id
                THEN [intervalCards[i] EXCEPT !.description = value]
                ELSE intervalCards[i]]} :
        /\ intervalCards' = updatedCards
        /\ SaveCards(updatedCards)
    /\ UNCHANGED <<mounted, pickerVars>>

\* new Date(<text toISOString wrote>).
DateFromIso(iso) == [day |-> DaysFromCivil(iso.y, iso.m, iso.d), tod |-> iso.t]

\* The map of the load effect over one parsed card.
RestoreCard(card) ==
    [card EXCEPT
        !.startDate = IF card.startDate # NullIso THEN DateFromIso(card.startDate)
                      ELSE NullDate,
        !.endDate = IF card.endDate # NullIso THEN DateFromIso(card.endDate) ELSE NullDate,
        !.segments = IF card.segments.isNull THEN NullSegments
                     ELSE SomeSegments([k \in 1 .. Len(card.segments.items) |->
                              [start |-> DateFromIso(card.segments.items[k].start),
                               end   |-> DateFromIso(card.segments.items[k].end)]])]

restoredCards(parsedCards) == [i \in 1 .. Len(parsedCards) |-> RestoreCard(parsedCards[i])]

\* The page is loaded again: InvoiceForm starts from its first card and the load
\* effect puts the saved cards, when there are any, in its place.
LoadSavedCards ==
    /\ mounted = "form"
    /\ intervalCards' = IF storage.present THEN restoredCards(storage.cards)
                        ELSE <<NewCard(1)>>
    /\ UNCHANGED <<mounted, pickerVars, storage>>

\* app/page.tsx, handleClearLocalStorage once the user has confirmed: it removes
\* the key 'invoiceFormData', which holds the fields of the form and none of the
\* cards, and loads the page again; 'invoiceIntervalCards' is not touched.
handleClearLocalStorage == LoadSavedCards

\* The day new Date() reads in generateInvoiceItems.
TodayDay == DaysFromCivil(2023, 12, 1)

Clock == {[day |-> TodayDay, tod |-> t] : t \in Tods}

\* handleSubmit: without items it returns after the alert; saveFormData then runs
\* the transformation that stores the cards of this render.
handleSubmit ==
    /\ mounted = "form"
    /\ IF Len(generateInvoiceItems(intervalCards, [day |-> TodayDay, tod |-> 0], TRUE)) = 0
       THEN UNCHANGED storage
       ELSE SaveCards(intervalCards)
    /\ UNCHANGED <<mounted, pickerVars, intervalCards>>

----------------------------------------------------------------------------
(* The form specification: the card operations of InvoiceForm over a few ranges, *)
(* on at most MaxCards cards; the interval type, the amount and the description *)
(* are those of the first card of the list.  The picker, when the page shows   *)
(* it, takes the same ranges.                                                   *)

\* Friday to the same Friday, to the Monday after it, and to the day before it.
FormRanges ==
    {<<[day |-> BaseDay, tod |-> 0], [day |-> BaseDay + k, tod |-> 0]>> : k \in {0 - 1, 0, 3}}

FormAmountTexts == {<<"1", "2", ".", "5">>}

Descriptions == {"", "Consulting"}

CardAdd ==
    /\ Len(intervalCards) < MaxCards
    /\ addIntervalCard

CardRemove == \E i \in 1 .. Len(intervalCards) : removeIntervalCard(intervalCards[i].id)

CardInterval ==
    \E t \in IntervalTypes :
        /\ intervalCards[1].intervalType # t
        /\ handleIntervalChange(intervalCards[1].id, t)

CardDates ==
    \E i \in 1 .. Len(intervalCards), p \in FormRanges : FormApply(i, p[1], p[2])

\* An Invalid Date comes in while nothing is saved yet: no later save succeeds
\* as long as a card holds it.
CardInvalidDates ==
    \E i \in 1 .. Len(intervalCards) :
        /\ ~storage.present
        /\ CardFresh(i)
        /\ FormApply(i, [day |-> BaseDay, tod |-> 0], InvalidDate)

CardClear ==
    \E i \in 1 .. Len(intervalCards) :
        /\ ~CardFresh(i)
        /\ FormClear(i)

CardAmountType ==
    /\ AmountInputValue(intervalCards[1]) = <<>>
    /\ \E text \in FormAmountTexts : handleAmountInputChange(intervalCards[1].id, text)

CardAmountBlur ==
    /\ AmountInputValue(intervalCards[1]) # <<>>
    /\ \E roundUp \in BOOLEAN :
           handleAmountInputBlur(intervalCards[1].id, AmountInputValue(intervalCards[1]),
                                 roundUp)

CardDescription ==
    \E value \in Descriptions :
        /\ intervalCards[1].description # value
        /\ handleDescriptionChange(intervalCards[1].id, value)

\* The picker, when the page shows it: a range or a single date is applied over
\* whatever it holds.
PickerDates ==
    \E p \in FormRanges \cup {<<[day |-> BaseDay, tod |-> 0], NullDate>>} :
        PickerApply(p[1], p[2])

NextForm ==
    \/ PickerDates
    \/ PickerClear
    \/ PickerChangeInterval
    \/ CardAdd
    \/ CardRemove
    \/ CardInterval
    \/ CardDates
    \/ CardInvalidDates
    \/ CardClear
    \/ CardAmountType
    \/ CardAmountBlur
    \/ CardDescription
    \/ handleSubmit
    \/ LoadSavedCards
    \/ handleClearLocalStorage

SpecForm == Init /\ [][NextForm]_vars

----------------------------------------------------------------------------
(* The Date objects in the segments of calculateSegments; calculateDateSegments *)
(* puts the same objects in its own.  An object is named by what made it: the  *)
(* caller ("start", "end"), a call of date-fns, or new Date(weekStart).        *)

Object(madeBy, k) == [madeBy |-> madeBy, k |-> k]

\* .map(date => ({ start: date, end: date })) over the dates at the places kept.
DayObjects(places) ==
    [k \in 1 .. Len(places) |->
        [start |-> Object("eachDayOfInterval", places[k]),
         end   |-> Object("eachDayOfInterval", places[k])]]

\* The 'week' case: weekEnd is a new Date, adjustedEnd is weekEnd or the caller's end.
WeekObjects(weeks, end) ==
    [k \in 1 .. Len(weeks) |->
        [start |-> Object("eachWeekOfInterval", k),
         end   |-> IF DateLt(end, setDate(weeks[k], getDate(weeks[k]) + 4))
                   THEN Object("end", 0) ELSE Object("new Date(weekStart)", k)]]

\* The 'month' case: the caller's start and end at the two ends, startOfMonth and
\* endOfMonth of the months between.
MonthObjects(count) ==
    IF NumLe(count, 0) THEN <<[start |-> Object("start", 0), end |-> Object("end", 0)]>>
    ELSE [i \in 1 .. count |->
             [start |-> IF i = 1 THEN Object("start", 0) ELSE Object("startOfMonth", i),
              end   |-> IF i = count THEN Object("end", 0) ELSE Object("endOfMonth", i)]]

\* The objects in the segments the switch computes for start, end and interval.
SegmentObjects(start, end, interval) ==
    CASE interval = "day" ->
           DayObjects([k \in 1 .. Len(eachDayOfInterval(start, end)) |-> k])
      [] interval = "week" -> WeekObjects(eachWeekOfInterval(start, end), end)
      [] interval = "weekend" ->
           DayObjects(SelectSeq([k \in 1 .. Len(eachDayOfInterval(start, end)) |-> k],
                                LAMBDA k : isWeekend(eachDayOfInterval(start, end)[k])))
      [] interval = "month" -> MonthObjects(NumAdd(differenceInMonths(end, start), 1))

----------------------------------------------------------------------------
(* invoice-form.tsx: the total of the form; InvoicePreview.tsx: the total of the *)
(* invoice.                                                                     *)

\* x + y.
Plus(x, y) ==
    IF x.nan \/ y.nan THEN NotANumber
    ELSE IF x.e <= y.e THEN Number(x.m + y.m * Pow10(y.e - x.e), x.e)
    ELSE Number(x.m * Pow10(x.e - y.e) + y.m, y.e)

\* reduce((sum, x) => sum + x, 0) over the numbers from place i on.
RECURSIVE SumFrom(_, _, _)
SumFrom(sum, numbers, i) ==
    IF i > Len(numbers) THEN sum ELSE SumFrom(Plus(sum, numbers[i]), numbers, i + 1)

\* calculateTotal of the form: the sum of parseFloat(card.amount || '0') times
\* card.segmentCount || 0.
FormCalculateTotal(cards, roundUp) ==
    toFixed(SumFrom(Number(0, 0),
                    [i \in 1 .. Len(cards) |->
                        Times(IF IsNaN(cards[i].segmentCount) THEN 0 ELSE cards[i].segmentCount,
                              parseFloat(IF cards[i].amount = <<>> THEN <<"0">>
                                         ELSE cards[i].amount))],
                    1),
            roundUp)

\* calculateTotal of InvoicePreview: the sum of parseFloat(item.total).
PreviewCalculateTotal(items, roundUp) ==
    toFixed(SumFrom(Number(0, 0), [n \in 1 .. Len(items) |-> parseFloat(items[n].total)], 1),
            roundUp)

----------------------------------------------------------------------------
(* What the claims speak of. *)

\* The engine calls whose result the page holds: the picker's calculateSegments
\* for its range and interval type, and calculateDateSegments for each card with
\* two dates.  calculateDateSegments reports no error.
EngineRuns ==
    (IF mounted = "picker" /\ Truthy(startDate) /\ Truthy(endDate)
     THEN {[copy |-> "picker", start |-> startDate, end |-> endDate,
            interval |-> intervalType, count |-> segmentCount,
            segments |-> segments, error |-> error]}
     ELSE {})
    \cup
    {[copy |-> "form", start |-> intervalCards[i].startDate,
      end |-> intervalCards[i].endDate, interval |-> intervalCards[i].intervalType,
      count |-> intervalCards[i].segmentCount, segments |-> intervalCards[i].segments,
      error |-> NullError] :
        i \in {j \in 1 .. Len(intervalCards) :
                  /\ mounted = "form"
                  /\ Truthy(intervalCards[j].startDate)
                  /\ Truthy(intervalCards[j].endDate)}}

\* Runs on a range with start <= end.
ValidRuns == {r \in EngineRuns : DateLe(r.start, r.end)}

\* The calendar, as the claims use it.
IsSaturdayOrSunday(day) == (day + 4) % 7 \in {0, 6}

MondayOf(day) == day - ((day + 3) % 7)

\* Months are counted from year 0: 12 * year + month - 1.
MonthOf(day) == CivilFromDays(day).y * 12 + CivilFromDays(day).m - 1

FirstDayOfMonth(month) == DaysFromCivil(month \div 12, (month % 12) + 1, 1)

LastDayOfMonth(month) == FirstDayOfMonth(month + 1) - 1

\* A date of the model's window, for witnesses: offset days after BaseDay, at tick t.
DateAt(offset, t) == [day |-> BaseDay + offset, tod |-> t]

----------------------------------------------------------------------------
(* C1 *)

\* C1 (as claimed): for the 'day' interval and every range with start <= end, the
\* engine returns one single-day segment for each calendar day from start to end,
\* in ascending order, and count is the inclusive number of days.
C1_DayPerCalendarDay ==
    \A r \in ValidRuns :
        r.interval = "day" =>
            LET days == r.end.day - r.start.day + 1
            IN  /\ ~r.segments.isNull
                /\ Len(r.segments.items) = days
                /\ \A k \in 1 .. Len(r.segments.items) :
                       /\ r.segments.items[k].start = r.segments.items[k].end
                       /\ r.segments.items[k].start.day = r.start.day + k - 1
                /\ r.count = days

----------------------------------------------------------------------------
(* C2 *)

\* C2 (as claimed): for the 'month' interval and every range with start <= end,
\* there is exactly one segment per calendar month the range touches: the first
\* from start to the last day of its month, the last from the first day of end's
\* month to end, full months in between, and [start, end] for a range inside one
\* month; count is the number of months touched.
C2_SegmentPerMonthTouched ==
    \A r \in ValidRuns :
        r.interval = "month" =>
            LET first  == MonthOf(r.start.day)
                months == MonthOf(r.end.day) - first + 1
            IN  /\ ~r.segments.isNull
                /\ r.count = months
                /\ Len(r.segments.items) = months
                /\ \A k \in 1 .. Len(r.segments.items) :
                       /\ r.segments.items[k].start.day =
                              (IF k = 1 THEN r.start.day ELSE FirstDayOfMonth(first + k - 1))
                       /\ r.segments.items[k].end.day =
                              (IF k = months THEN r.end.day ELSE LastDayOfMonth(first + k - 1))

----------------------------------------------------------------------------
(* C3 *)

\* C3: for the 'week' interval and every range with start <= end, there is one
\* segment per Monday-started week that intersects the range; it starts on that
\* week's Monday and ends on the earlier of Monday + 4 days and range.end, so no
\* segment ends after range.end; count is the number of segments.
C3_WeekSegments ==
    \A r \in ValidRuns :
        r.interval = "week" =>
            LET firstMonday == MondayOf(r.start.day)
                weeks       == (MondayOf(r.end.day) - firstMonday) \div 7 + 1
            IN  /\ ~r.segments.isNull
                /\ Len(r.segments.items) = weeks
                /\ r.count = weeks
                /\ \A k \in 1 .. Len(r.segments.items) :
                       LET monday == firstMonday + 7 * (k - 1)
                           seg    == r.segments.items[k]
                       IN  /\ seg.start.day = monday
                           /\ seg.end.day = (IF monday + 4 < r.end.day
                                             THEN monday + 4 ELSE r.end.day)
                           /\ DateLe(seg.end, r.end)

\* A week run of three weeks whose last segment is cut at the range's end, a
\* Wednesday: Monday 2023-12-18 .. Wednesday 2024-01-03.
C3_Witness ==
    \E r \in ValidRuns :
        /\ r.interval = "week"
        /\ r.start = DateAt(3, 0)
        /\ r.end = DateAt(19, 0)
        /\ r.count = 3
        /\ r.segments.items[3].start.day = BaseDay + 17
        /\ r.segments.items[3].end.day = BaseDay + 19

----------------------------------------------------------------------------
(* C4 *)

\* C4: for the 'weekend' interval and every range with start <= end, the segments
\* are exactly the Saturdays and Sundays of [start, end], one single-day segment
\* each, in ascending order, and count is their number.
C4_WeekendDays ==
    \A r \in ValidRuns :
        r.interval = "weekend" =>
            LET weekendDays == {d \in r.start.day .. r.end.day : IsSaturdayOrSunday(d)}
            IN  /\ ~r.segments.isNull
                /\ Len(r.segments.items) = Cardinality(weekendDays)
                /\ r.count = Cardinality(weekendDays)
                /\ \A k \in 1 .. Len(r.segments.items) :
                       /\ r.segments.items[k].start = r.segments.items[k].end
                       /\ r.segments.items[k].start.day \in weekendDays
                       /\ k > 1 => r.segments.items[k - 1].start.day
                                       < r.segments.items[k].start.day

\* Monday 2023-12-18 .. Sunday 2023-12-24 gives the two segments 12-23 and 12-24.
C4_Witness ==
    \E r \in ValidRuns :
        /\ r.interval = "weekend"
        /\ r.start = DateAt(3, 0)
        /\ r.end = DateAt(9, 0)
        /\ r.count = 2
        /\ r.segments.items[1].start.day = BaseDay + 8
        /\ r.segments.items[2].start.day = BaseDay + 9

----------------------------------------------------------------------------
(* C5 *)

\* C5 (as claimed): for every interval type and every range with start <= end,
\* every segment lies in the range, by calendar days:
\* range.start <= segment.start <= segment.end <= range.end.
C5_SegmentsInsideRange ==
    \A r \in ValidRuns :
        \A k \in 1 .. Len(r.segments.items) :
            LET seg == r.segments.items[k]
            IN  /\ r.start.day <= seg.start.day
                /\ seg.start.day <= seg.end.day
                /\ seg.end.day <= r.end.day

----------------------------------------------------------------------------
(* C6 *)

\* C6 (as claimed): for every interval type, when range.end is before range.start
\* the engine returns count = 0, no segments and the error "End date cannot be
\* before start date".
C6_InvalidRange ==
    \A r \in EngineRuns :
        DateLt(r.end, r.start) =>
            /\ r.count = 0
            /\ r.segments.isNull
            /\ r.error = InvalidRangeError

----------------------------------------------------------------------------
(* C7 *)

\* C7 (as claimed): for a range with start <= end whose computation yields
\* count = 0, the engine returns empty segments together with the error
\* "No valid <interval> segments found in the selected range".
C7_EmptyResult ==
    \A r \in ValidRuns :
        r.count = 0 =>
            /\ r.segments.items = <<>>
            /\ r.error = EmptyResultError(r.interval)

----------------------------------------------------------------------------
(* C8 *)

\* C8 (as claimed): for every input, an invalid date value included, a failure
\* ends in the one result shape with the error set, count = 0 and no segments.
C8_OneFailureShape ==
    \A r \in EngineRuns :
        (~IsValidDate(r.start) \/ ~IsValidDate(r.end) \/ DateLt(r.end, r.start)) =>
            /\ r.count = 0
            /\ r.segments.items = <<>>
            /\ r.copy = "picker" => r.error # NullError

----------------------------------------------------------------------------
(* C9 *)

\* C9: for every range with start = end, 'day', 'week' and 'month' yield
\* count >= 1; 'weekend' yields count = 1 when the day is a Saturday or Sunday,
\* and otherwise count = 0, in the picker with the error "No valid weekend
\* segments found in the selected range".
C9_SingleDayRange ==
    \A r \in ValidRuns :
        r.start = r.end =>
            /\ r.interval \in {"day", "week", "month"} => r.count >= 1
            /\ (r.interval = "weekend" /\ IsSaturdayOrSunday(r.start.day)) => r.count = 1
            /\ (r.interval = "weekend" /\ ~IsSaturdayOrSunday(r.start.day)) =>
                   /\ r.count = 0
                   /\ r.copy = "picker" => r.error = EmptyResultError("weekend")

\* The picker after Friday 2023-12-15 .. Friday 2023-12-15 with 'weekend': no
\* segment, and the EmptyResult error.
C9_Witness ==
    \E r \in ValidRuns :
        /\ r.copy = "picker"
        /\ r.start = r.end
        /\ r.interval = "weekend"
        /\ ~IsSaturdayOrSunday(r.start.day)
        /\ r.count = 0
        /\ r.error = "No valid weekend segments found in the selected range"

----------------------------------------------------------------------------
(* C10 *)

\* The totals on display: the picker's, when its summary is rendered, and the
\* total of each card that shows one; with the count and the amount text each
\* is computed from.
DisplayedTotals ==
    (IF mounted = "picker" /\ PickerSummaryShown
     THEN {[count |-> segmentCount, amount |-> amount, total |-> calculateTotal(roundUp)] :
               roundUp \in BOOLEAN}
     ELSE {})
    \cup
    UNION {{[count |-> intervalCards[i].segmentCount, amount |-> intervalCards[i].amount,
             total |-> CardTotal(intervalCards[i], roundUp)] : roundUp \in BOOLEAN} :
               i \in {j \in 1 .. Len(intervalCards) :
                         mounted = "form" /\ CardSummaryShown(intervalCards[j])}}

\* The amount a text stands for: 0 when the text is empty or does not parse as a
\* number.
AmountPerSegment(text) ==
    IF text = <<>> \/ parseFloat(text).nan THEN Number(0, 0) ELSE parseFloat(text)

\* A text with exactly two decimal places: digits, a point, two digits.
HasTwoDecimals(text) ==
    /\ Len(text) >= 4
    /\ text[Len(text) - 2] = "."
    /\ \A i \in (1 .. Len(text)) \ {Len(text) - 2} : text[i] \in DigitChars

\* The text is count * x written with two decimal places: its integer digits and
\* its two decimals are those of a multiple of 0.01 nearest to count * x.
IsTimesWithTwoDecimals(text, count, x) ==
    /\ HasTwoDecimals(text)
    /\ LET m == count * x.m
       IN  IF m = 0 THEN text = <<"0", ".", "0", "0">>
           ELSE IF x.e >= 0
           THEN text = DigitString(m) \o Zeros(x.e) \o <<".", "0", "0">>
           ELSE LET scale == Pow10(0 - x.e)
                    cents == DigitsValue(text, Len(text) - 1, Len(text) + 1,
                                         DigitsValue(text, 1, Len(text) - 2, 0))
                    diff  == cents * scale - 100 * m
                IN  /\ Len(text) <= 9
                    /\ 2 * diff <= scale
                    /\ 0 - scale <= 2 * diff

\* C10 (as claimed): every displayed total is count * amountPerSegment written
\* with exactly two decimal places, the amount being 0 when the amount text is
\* empty or does not parse as a number.
C10_TotalIsCountTimesAmount ==
    \A t \in DisplayedTotals :
        IsTimesWithTwoDecimals(t.total, t.count, AmountPerSegment(t.amount))

----------------------------------------------------------------------------
(* C11 *)

\* C11 (as claimed): when the segmentation has more than 4 segments, the preview
\* list shows exactly 4 lines: the labels of the first 3 segments and then one
\* line "+ {count-3} more {interval}(s)..." for all the others.
C11_PreviewOfMany ==
    (PreviewShown /\ Len(segments.items) > 4) =>
        PreviewLines = <<PreviewLabel(segments.items[1]), PreviewLabel(segments.items[2]),
                         PreviewLabel(segments.items[3]), MoreLine>>

----------------------------------------------------------------------------
(* C12 *)

\* C12 (as claimed): when the segmentation has exactly 4 segments, the preview
\* list shows the labels of all 4 segments and no "+ more" line.
C12_PreviewOfFour ==
    (PreviewShown /\ Len(segments.items) = 4) =>
        PreviewLines = [k \in 1 .. 4 |-> PreviewLabel(segments.items[k])]

\* The cards of the form that have both dates, segments and a count above zero.
CardsWithItems == {i \in 1 .. Len(intervalCards) : CardHasItems(intervalCards[i])}

\* The items from position offset + 1 on are those of the segments of the card,
\* one for each and in their order: each with the card's description, the dates
\* of its segment, and as total the card's amount with two decimals.
IsItemPerSegment(items, offset, card) ==
    /\ offset + Len(card.segments.items) <= Len(items)
    /\ \A k \in 1 .. Len(card.segments.items) :
           /\ items[offset + k].description = card.description
           /\ items[offset + k].startDate = card.segments.items[k].start
           /\ items[offset + k].endDate = card.segments.items[k].end
           /\ items[offset + k].segments = SomeSegments(<<card.segments.items[k]>>)
           /\ IsTimesWithTwoDecimals(items[offset + k].total, 1, AmountPerSegment(card.amount))

\* The number of segments of the cards from i on that have items.
RECURSIVE SegmentsOfCardsFrom(_)
SegmentsOfCardsFrom(i) ==
    IF i > Len(intervalCards) THEN 0
    ELSE (IF i \in CardsWithItems THEN Len(intervalCards[i].segments.items) ELSE 0)
             + SegmentsOfCardsFrom(i + 1)

\* C13: for a card with both dates, its segments and a count above zero, the list
\* generateInvoiceItems gives holds, one after the other and in segment order, one
\* item for each segment of the card, with the card's description, the segment's
\* start and end dates, and as total the card's amount with two decimals; and the
\* list holds no more items of one segment than such cards have segments.
C13_ItemPerSegment ==
    (mounted = "form" /\ CardsWithItems # {}) =>
        \A now \in Clock : \A roundUp \in BOOLEAN :
            \E items \in {generateInvoiceItems(intervalCards, now, roundUp)} :
                /\ \A i \in CardsWithItems :
                       \E offset \in 0 .. Len(items) :
                           IsItemPerSegment(items, offset, intervalCards[i])
                /\ Cardinality({n \in 1 .. Len(items) :
                                    ~items[n].segments.isNull
                                        /\ Len(items[n].segments.items) = 1})
                       = SegmentsOfCardsFrom(1)

\* Two cards; the first has a description, an amount and the four day segments of
\* Friday to Monday, the second has no dates.
C13_Witness ==
    /\ mounted = "form"
    /\ Len(intervalCards) = 2
    /\ CardsWithItems = {1}
    /\ intervalCards[1].segmentCount = 4
    /\ intervalCards[1].description = "Consulting"
    /\ intervalCards[1].amount = <<"1", "2", ".", "5", "0">>
    /\ Len(generateInvoiceItems(intervalCards, [day |-> TodayDay, tod |-> 0], TRUE)) = 5

\* The cards without a date, or whose range resolved to no segment.
CardsWithoutSegments ==
    {i \in 1 .. Len(intervalCards) :
        \/ ~Truthy(intervalCards[i].startDate)
        \/ ~Truthy(intervalCards[i].endDate)
        \/ intervalCards[i].segments.isNull
        \/ Len(intervalCards[i].segments.items) = 0}

\* The number of items the cards before card i are to give: one for each segment,
\* and one for a card without segments.
RECURSIVE ItemsDueBefore(_)
ItemsDueBefore(i) ==
    IF i <= 1 THEN 0
    ELSE ItemsDueBefore(i - 1)
             + (IF (i - 1) \in CardsWithoutSegments THEN 1
                ELSE Len(intervalCards[i - 1].segments.items))

\* C14 (as claimed): every card without a date, or whose range resolved to no
\* segment, gets exactly one item in the list generateInvoiceItems gives, at the
\* card's place in it: with today's date as start and as end, and as total the
\* card's amount with two decimals.
C14_FallbackItem ==
    mounted = "form" =>
        \A now \in Clock : \A roundUp \in BOOLEAN :
            \E items \in {generateInvoiceItems(intervalCards, now, roundUp)} :
                /\ Len(items) = ItemsDueBefore(Len(intervalCards) + 1)
                /\ \A i \in CardsWithoutSegments :
                       \E item \in {items[ItemsDueBefore(i) + 1]} :
                           /\ item.startDate = now
                           /\ item.endDate = now
                           /\ IsTimesWithTwoDecimals(item.total, 1,
                                  AmountPerSegment(intervalCards[i].amount))

\* What a card persists: all of its fields but the id.
CardTuple(card) ==
    <<card.intervalType, card.startDate, card.endDate, card.segmentCount, card.segments,
      card.amount, card.description>>

\* The cards a reload of the page would show.
CardsAfterReload == IF storage.present THEN restoredCards(storage.cards) ELSE <<NewCard(1)>>

\* C15 (as claimed): after any sequence of card operations the saved list holds,
\* card for card, the interval type, the dates, the count, the segments, the
\* amount and the description of the cards in memory: a reload shows the same.
C15_SavedIsShown ==
    mounted = "form" =>
        /\ Len(CardsAfterReload) = Len(intervalCards)
        /\ \A i \in 1 .. Len(intervalCards) :
               CardTuple(CardsAfterReload[i]) = CardTuple(intervalCards[i])

\* Two dates are both null, or both dates on the same calendar day.
SameDayOrNull(a, b) ==
    IF Truthy(a) /\ Truthy(b) THEN IsValidDate(a) /\ IsValidDate(b) /\ a.day = b.day
    ELSE a = b

\* Two lists of segments are both null, or as long as each other with the same
\* days at each place.
SameSegmentDays(a, b) ==
    /\ a.isNull = b.isNull
    /\ Len(a.items) = Len(b.items)
    /\ \A k \in 1 .. Len(a.items) :
           /\ SameDayOrNull(a.items[k].start, b.items[k].start)
           /\ SameDayOrNull(a.items[k].end, b.items[k].end)

ComputedSegments ==
    (IF mounted = "picker" /\ ~segments.isNull
     THEN {[start |-> startDate, end |-> endDate, interval |-> intervalType,
            items |-> segments.items]}
     ELSE {})
    \cup
    {[start |-> intervalCards[i].startDate, end |-> intervalCards[i].endDate,
      interval |-> intervalCards[i].intervalType, items |-> intervalCards[i].segments.items] :
        i \in {j \in 1 .. Len(intervalCards) :
                  mounted = "form" /\ ~intervalCards[j].segments.isNull}}

\* C17 (as claimed): every Date in a returned segment is an object of its own: not
\* the caller's start or end, not a date of another segment, and not the other
\* end of its own segment.
C17_IndependentDates ==
    \A run \in ComputedSegments :
        \E objects \in {SegmentObjects(run.start, run.end, run.interval)} :
            /\ Len(objects) = Len(run.items)
            /\ \A k \in 1 .. Len(objects) :
                   /\ objects[k].start # objects[k].end
                   /\ {objects[k].start, objects[k].end}
                          \cap {Object("start", 0), Object("end", 0)} = {}
                   /\ \A j \in 1 .. Len(objects) :
                          j # k => {objects[k].start, objects[k].end}
                                       \cap {objects[j].start, objects[j].end} = {}

\* What a copy of the engine gives for a range and an interval type: the error
\* (calculateDateSegments has none), the count and the segments.
EngineResult(copy, start, end, interval) ==
    IF copy = "picker"
    THEN [error    |-> calculateSegments(start, end, interval).error,
          count    |-> calculateSegments(start, end, interval).segmentCount,
          segments |-> calculateSegments(start, end, interval).segments]
    ELSE [error    |-> NullError,
          count    |-> calculateDateSegments(start, end, interval).segmentCount,
          segments |-> calculateDateSegments(start, end, interval).segments]

\* The calendar days of a list of segments.
SegmentDays(segs) ==
    [isNull |-> segs.isNull,
     days   |-> [k \in 1 .. Len(segs.items) |-> <<segs.items[k].start.day, segs.items[k].end.day>>]]

\* C18 (as claimed): the result depends on the calendar days of start and end
\* only: whatever the times of day of the two dates, the error, the count and the
\* days of the segments are those the page holds for the range.
C18_TimeOfDayIgnored ==
    \A run \in {r \in EngineRuns : IsValidDate(r.start) /\ IsValidDate(r.end)} :
        \A t1 \in Tods : \A t2 \in Tods :
            \E other \in {EngineResult(run.copy, [day |-> run.start.day, tod |-> t1],
                                       [day |-> run.end.day, tod |-> t2], run.interval)} :
                /\ other.error = run.error
                /\ other.count = run.count
                /\ SegmentDays(other.segments) = SegmentDays(run.segments)

C20_ErrorHidesSummary ==
    mounted = "picker" =>
        /\ error # NullError => (segmentCount = 0 /\ ~PickerSummaryShown /\ ~PreviewShown)
        /\ (PickerSummaryShown \/ PreviewShown) => (error = NullError /\ NumLt(0, segmentCount))

\* The picker holds the error of a weekend range without a weekend day: a Friday
\* alone.
C20_Witness ==
    /\ mounted = "picker"
    /\ error = EmptyResultError("weekend")
    /\ segmentCount = 0
    /\ startDate = DateAt(0, 0)
    /\ endDate = DateAt(0, 0)

\* C21: for every interval type and every range with start <= end, the segments
\* are in strictly ascending order and do not overlap: each segment starts on a
\* later day than the day the segment before it ends on.
C21_AscendingSegments ==
    \A run \in ValidRuns :
        ~run.segments.isNull =>
            \A k \in 2 .. Len(run.segments.items) :
                run.segments.items[k - 1].end.day < run.segments.items[k].start.day

\* The picker holds the week segments of a range over more than two weeks.
C21_Witness ==
    /\ mounted = "picker"
    /\ intervalType = "week"
    /\ DateLe(startDate, endDate)
    /\ ~segments.isNull
    /\ Len(segments.items) >= 3

\* C22: after any sequence of interval changes and date applications, the picker
\* and every card with both dates set hold the segments and the count the engine
\* gives for the dates and the interval type they hold now: none is left from an
\* earlier interval type or an earlier range.
C22_SegmentsAreCurrent ==
    /\ (mounted = "picker" /\ Truthy(startDate) /\ Truthy(endDate)) =>
           /\ segments = calculateSegments(startDate, endDate, intervalType).segments
           /\ segmentCount = calculateSegments(startDate, endDate, intervalType).segmentCount
    /\ mounted = "form" =>
           \A i \in 1 .. Len(intervalCards) :
               (Truthy(intervalCards[i].startDate) /\ Truthy(intervalCards[i].endDate)) =>
                   \E r \in {calculateDateSegments(intervalCards[i].startDate,
                                 intervalCards[i].endDate, intervalCards[i].intervalType)} :
                       /\ intervalCards[i].segments = r.segments
                       /\ intervalCards[i].segmentCount = r.segmentCount

\* The first card holds the one month segment of Friday to Monday and the saved
\* list still has its weekend segments: the interval type changed on a card with
\* dates.
C22_Witness ==
    /\ mounted = "form"
    /\ intervalCards[1].intervalType = "month"
    /\ intervalCards[1].startDate = DateAt(0, 0)
    /\ intervalCards[1].endDate = DateAt(3, 0)
    /\ intervalCards[1].segmentCount = 1
    /\ storage.present
    /\ storage.cards[1].intervalType = "weekend"
    /\ storage.cards[1].segmentCount = 2

\* C23 (as claimed): once the picker has called onDatesChange, the start, end,
\* count and segments of its latest call are the startDate, endDate, segmentCount
\* and segments the picker holds, also when only one of the two dates is set.
C23_ForwardedIsState ==
    (mounted = "picker" /\ forwarded.called) =>
        /\ forwarded.startDate = startDate
        /\ forwarded.endDate = endDate
        /\ forwarded.segmentCount = segmentCount
        /\ forwarded.segments = segments

\* The list without the card at place p.
WithoutPlace(cards, p) ==
    [j \in 1 .. Len(cards) - 1 |-> IF j < p THEN cards[j] ELSE cards[j + 1]]

IsItemOf(item, card) ==
    /\ item.intervalType = card.intervalType
    /\ item.description \in {card.description, "Service"}
    /\ IsTimesWithTwoDecimals(item.total, 1, AmountPerSegment(card.amount))

\* The cards from place i on each find an item of their own after place n of the
\* list, in the order of the cards.
RECURSIVE CardsFindItems(_, _, _, _)
CardsFindItems(items, n, cards, i) ==
    IF i > Len(cards) THEN TRUE
    ELSE \E m \in (n + 1) .. Len(items) :
             /\ IsItemOf(items[m], cards[i])
             /\ \A l \in (n + 1) .. (m - 1) : ~IsItemOf(items[l], cards[i])
             /\ CardsFindItems(items, m, cards, i + 1)

\* C25 (as claimed): generateInvoiceItems gives at least one item for every card,
\* in card order: the list is never empty and has an item of each card.
C25_ItemForEveryCard ==
    mounted = "form" =>
        \A now \in Clock : \A roundUp \in BOOLEAN :
            \E items \in {generateInvoiceItems(intervalCards, now, roundUp)} :
                /\ Len(items) >= Len(intervalCards)
                /\ CardsFindItems(items, 0, intervalCards, 1)

\* C26 (as claimed): for every interval type and every range with start <= end,
\* whatever the times of day, the count is the number of segments.
C26_CountIsNumberOfSegments ==
    \A run \in ValidRuns :
        /\ ~run.segments.isNull
        /\ run.count = Len(run.segments.items)

\* C27 (as claimed): the total the form shows for its cards is the total the
\* invoice shows for the items generateInvoiceItems gives, also when a card has an
\* amount and no dates or no segments.
C27_FormTotalIsInvoiceTotal ==
    mounted = "form" =>
        \A now \in Clock : \A roundUp \in BOOLEAN :
            FormCalculateTotal(intervalCards, roundUp)
                = PreviewCalculateTotal(generateInvoiceItems(intervalCards, now, roundUp),
                                        roundUp)

\* C28: calculateSegments and calculateDateSegments give the same count and the
\* same segments for the range and the interval type of every call whose result
\* the page holds, also for a range with end < start and for a range without a
\* segment.
C28_CopiesAgree ==
    \A run \in EngineRuns :
        /\ calculateSegments(run.start, run.end, run.interval).segmentCount
               = calculateDateSegments(run.start, run.end, run.interval).segmentCount
        /\ calculateSegments(run.start, run.end, run.interval).segments
               = calculateDateSegments(run.start, run.end, run.interval).segments
        /\ run.count = calculateSegments(run.start, run.end, run.interval).segmentCount
        /\ run.segments = calculateDateSegments(run.start, run.end, run.interval).segments

\* A card holds the week segments of a range that ends on a Wednesday, three
\* weeks after it starts.
C28_Witness ==
    /\ mounted = "form"
    /\ intervalCards[1].intervalType = "week"
    /\ intervalCards[1].startDate = DateAt(0, 0)
    /\ intervalCards[1].endDate = DateAt(19, 0)
    /\ intervalCards[1].segmentCount = 4
    /\ intervalCards[1].segments.items[4].end = DateAt(19, 0)

\* The items each card from place i on gives when it is the only card of the
\* list, one list after the other.
RECURSIVE ItemsOfEachCardAlone(_, _, _, _)
ItemsOfEachCardAlone(cards, i, now, roundUp) ==
    IF i > Len(cards) THEN <<>>
    ELSE generateInvoiceItems(<<cards[i]>>, now, roundUp)
             \o ItemsOfEachCardAlone(cards, i + 1, now, roundUp)

\* C29 (as claimed): the items of a card depend on that card only: the list
\* generateInvoiceItems gives for the cards is made of the items each card gives
\* alone, whatever the other cards hold.
C29_ItemsOfCardAlone ==
    mounted = "form" =>
        \A now \in Clock : \A roundUp \in BOOLEAN :
            generateInvoiceItems(intervalCards, now, roundUp)
                = ItemsOfEachCardAlone(intervalCards, 1, now, roundUp)

\* C30 (as claimed): after 'Clear saved data' is confirmed no saved card is left
\* in storage, and the form the reload shows has its first value: a single card
\* without dates, segments, amount or description.
C30_ClearForgetsCards ==
    [][handleClearLocalStorage =>
           /\ ~storage'.present
           /\ Len(intervalCards') = 1
           /\ CardTuple(intervalCards'[1]) = CardTuple(NewCard(1))]_vars

====
